---- MODULE Spec2Model ----
(***************************************************************************)
(* ExtentRanges (payload_generator/extent_ranges.cc): a sorted set of      *)
(* disjoint block extents with a cached block count, its Add/Subtract      *)
(* mutations, its queries and the FilterExtentRanges utility.              *)
(*                                                                         *)
(* uint64_t is scaled down to the residues modulo Modulus; every addition  *)
(* and subtraction the code performs on uint64_t wraps modulo Modulus, and *)
(* kSparseHole is the largest value of the type, as in the program.        *)
(* extent_set_ (a std::set ordered by ExtentLess) is the sequence of its   *)
(* elements in iteration order; an iterator is an index into it, with      *)
(* end() == Len + 1.                                                       *)
(***************************************************************************)
EXTENDS Integers, Sequences, FiniteSets, TLC

\* Number of values of the scaled-down uint64_t.
Modulus == 8

\* std::numeric_limits<uint64_t>::max()
kSparseHole == Modulus - 1

\* Largest num_blocks of an extent handed to an operation.
MaxNum == 3

\* The extents handed to an operation lie within the blocks 0 .. MaxBlock - 1.
MaxBlock == 6

U64 == 0..(Modulus - 1)

AddU64(a, b) == (a + b) % Modulus

SubU64(a, b) == ((a + Modulus) - b) % Modulus

Min(S) == CHOOSE m \in S : \A n \in S : m <= n

MinU64(a, b) == IF b < a THEN b ELSE a

MaxU64(a, b) == IF a < b THEN b ELSE a

ExtentForRange(start_block, num_blocks) ==
  [start_block |-> start_block, num_blocks |-> num_blocks]

\* The default-constructed Extent, "return {}".
EmptyExtent == ExtentForRange(0, 0)

ExtentLess(x, y) ==
  IF x.start_block = y.start_block
    THEN x.num_blocks < y.num_blocks
    ELSE x.start_block < y.start_block

ExtentsOverlapOrTouch(a, b) ==
  IF a.start_block = b.start_block THEN TRUE
  ELSE IF a.start_block = kSparseHole \/ b.start_block = kSparseHole THEN FALSE
  ELSE IF a.start_block < b.start_block
    THEN AddU64(a.start_block, a.num_blocks) >= b.start_block
    ELSE AddU64(b.start_block, b.num_blocks) >= a.start_block

ExtentsOverlap(a, b) ==
  IF a.start_block = b.start_block THEN a.num_blocks # 0
  ELSE IF a.start_block = kSparseHole \/ b.start_block = kSparseHole THEN FALSE
  ELSE IF a.start_block < b.start_block
    THEN AddU64(a.start_block, a.num_blocks) > b.start_block
    ELSE AddU64(b.start_block, b.num_blocks) > a.start_block

(***************************************************************************)
(* std::set<Extent, ExtentLess> as a sequence in iteration order.          *)
(***************************************************************************)
SetBegin == 1

SetEnd(set) == Len(set) + 1

LowerBound(set, x) ==
  LET S == {i \in 1..Len(set) : ~ExtentLess(set[i], x)}
  IN  IF S = {} THEN SetEnd(set) ELSE Min(S)

UpperBound(set, x) ==
  LET S == {i \in 1..Len(set) : ExtentLess(x, set[i])}
  IN  IF S = {} THEN SetEnd(set) ELSE Min(S)

\* insert(x): nothing happens when an equivalent element is present.
SetInsert(set, x) ==
  LET i == LowerBound(set, x)
  IN  IF i <= Len(set) /\ ~ExtentLess(x, set[i])
        THEN set
        ELSE SubSeq(set, 1, i - 1) \o <<x>> \o SubSeq(set, i, Len(set))

\* erase(first, last): removes the elements at first .. last - 1.
SetErase(set, first, last) ==
  SubSeq(set, 1, first - 1) \o SubSeq(set, last, Len(set))

RECURSIVE SetInsertAll(_, _)
SetInsertAll(set, xs) ==
  IF xs = <<>> THEN set
  ELSE SetInsertAll(SetInsert(set, Head(xs)), Tail(xs))

\* utils::BlocksInExtents
RECURSIVE BlocksInExtents(_)
BlocksInExtents(extents) ==
  IF extents = <<>> THEN 0
  ELSE AddU64(Head(extents).num_blocks, BlocksInExtents(Tail(extents)))

(***************************************************************************)
(* GetCandidateRange                                                       *)
(***************************************************************************)
RECURSIVE CandidateLower(_, _, _)
CandidateLower(set, extent, lower_it) ==
  IF lower_it # SetBegin /\
     (lower_it = SetEnd(set) \/
      AddU64(set[lower_it].start_block, set[lower_it].num_blocks) >
        extent.start_block)
    THEN CandidateLower(set, extent, lower_it - 1)
    ELSE lower_it

\* Mutant: upper_bound is taken as it is, without the walk forward.
CandidateUpper_NoWalk(set, extent, upper_it) == upper_it

RECURSIVE CandidateUpper(_, _, _)
CandidateUpper(set, extent, upper_it) ==
  IF upper_it # SetEnd(set) /\
     set[upper_it].start_block <= AddU64(extent.start_block, extent.num_blocks)
    THEN CandidateUpper(set, extent, upper_it + 1)
    ELSE upper_it

GetCandidateRange(set, extent) ==
  [begin |-> CandidateLower(set, extent, LowerBound(set, extent)),
   end   |-> CandidateUpper(set, extent,
               UpperBound(set, ExtentForRange(
                 AddU64(extent.start_block, extent.num_blocks), 1)))]

(***************************************************************************)
(* AddExtent                                                               *)
(***************************************************************************)
UnionCheck(first, second) ==
  kSparseHole # first.start_block /\ kSparseHole # second.start_block

\* Mutant: the union keeps the incoming extent as it is.
UnionOverlappingExtents_KeepFirst(first, second) == first

UnionOverlappingExtents(first, second) ==
  LET start == MinU64(first.start_block, second.start_block)
      end   == MaxU64(AddU64(first.start_block, first.num_blocks),
                      AddU64(second.start_block, second.num_blocks))
  IN  ExtentForRange(start, SubU64(end, start))

\* Mutant: the merge_touching_extents_ setting is not respected.
ShouldMerge_IgnoreSetting(merge, entry, extent) == ExtentsOverlap(entry, extent)

\* Mutant: touching entries are merged whatever the setting.
ShouldMerge_AlwaysTouch(merge, entry, extent) ==
  ExtentsOverlapOrTouch(entry, extent)

\* should_merge
ShouldMerge(merge, entry, extent) ==
  IF merge THEN ExtentsOverlapOrTouch(entry, extent)
           ELSE ExtentsOverlap(entry, extent)

\* The loop of AddExtent over [it, e); acc holds its local variables.
RECURSIVE AddExtentLoop(_, _, _, _, _)
AddExtentLoop(set, merge, it, e, acc) ==
  IF it = e \/ ~acc.ok THEN acc
  ELSE IF ShouldMerge(merge, set[it], acc.extent)
    THEN AddExtentLoop(set, merge, it + 1, e,
           [begin_del  |-> IF acc.begin_del = SetEnd(set) THEN it
                           ELSE acc.begin_del,
            end_del    |-> it + 1,
            del_blocks |-> AddU64(acc.del_blocks, set[it].num_blocks),
            extent     |-> UnionOverlappingExtents(acc.extent, set[it]),
            ok         |-> UnionCheck(acc.extent, set[it])])
    ELSE AddExtentLoop(set, merge, it + 1, e, acc)

\* Mutant: the blocks of the consumed entries are not taken off blocks_.
AddExtentBlocks_NoDel(blocks, del_blocks, extent) ==
  AddU64(blocks, extent.num_blocks)

AddExtentBlocks(blocks, del_blocks, extent) ==
  AddU64(SubU64(blocks, del_blocks), extent.num_blocks)

\* Mutant: the zero-length test is dropped from the guard.
AddExtentIsNoop_HoleOnly(extent) == extent.start_block = kSparseHole

AddExtentIsNoop(extent) ==
  extent.start_block = kSparseHole \/ extent.num_blocks = 0

\* The loop of AddExtent over the candidate range.
AddExtentOver(set, merge, extent, range) ==
  AddExtentLoop(set, merge, range.begin, range.end,
    [begin_del |-> SetEnd(set), end_del |-> SetEnd(set),
     del_blocks |-> 0, extent |-> extent, ok |-> TRUE])

\* Mutant: the consumed entries are not erased.
AddExtentCommit_NoErase(set, blocks, acc) ==
  [set    |-> SetInsert(set, acc.extent),
   blocks |-> AddU64(SubU64(blocks, acc.del_blocks), acc.extent.num_blocks),
   ok     |-> acc.ok]

\* The erase, the insert and the update of blocks_ that end AddExtent.
AddExtentCommit(set, blocks, acc) ==
  [set    |-> SetInsert(SetErase(set, acc.begin_del, acc.end_del), acc.extent),
   blocks |-> AddExtentBlocks(blocks, acc.del_blocks, acc.extent),
   ok     |-> acc.ok]

\* The state AddExtent leaves: [set, blocks, ok]; ok is FALSE when a CHECK
\* of UnionOverlappingExtents fails.
AddExtentResult(set, blocks, merge, extent) ==
  IF AddExtentIsNoop(extent) THEN [set |-> set, blocks |-> blocks, ok |-> TRUE]
  ELSE AddExtentCommit(set, blocks,
         AddExtentOver(set, merge, extent, GetCandidateRange(set, extent)))

(***************************************************************************)
(* SubtractExtent                                                          *)
(***************************************************************************)
\* Mutant: the part of base after the subtractee is lost.
SubtractOverlappingExtents_NoTail(base, subtractee) ==
  IF subtractee.start_block > base.start_block
    THEN <<ExtentForRange(base.start_block,
                          SubU64(subtractee.start_block, base.start_block))>>
    ELSE <<>>

\* Mutant: the parts of base are kept when they are empty, too.
SubtractOverlappingExtents_ZeroResidual(base, subtractee) ==
  SetInsertAll(<<>>,
    <<ExtentForRange(base.start_block,
        IF subtractee.start_block > base.start_block
          THEN SubU64(subtractee.start_block, base.start_block) ELSE 0),
      ExtentForRange(AddU64(subtractee.start_block, subtractee.num_blocks),
        IF AddU64(base.start_block, base.num_blocks) >
             AddU64(subtractee.start_block, subtractee.num_blocks)
          THEN SubU64(AddU64(base.start_block, base.num_blocks),
                      AddU64(subtractee.start_block, subtractee.num_blocks))
          ELSE 0)>>)

\* base - subtractee as the sequence of the returned ExtentSet.
SubtractOverlappingExtents(base, subtractee) ==
  LET base_end       == AddU64(base.start_block, base.num_blocks)
      subtractee_end == AddU64(subtractee.start_block, subtractee.num_blocks)
      head == IF subtractee.start_block > base.start_block
                THEN <<ExtentForRange(base.start_block,
                         SubU64(subtractee.start_block, base.start_block))>>
                ELSE <<>>
      tail == IF base_end > subtractee_end
                THEN <<ExtentForRange(subtractee_end,
                         SubU64(base_end, subtractee_end))>>
                ELSE <<>>
  IN  SetInsertAll(<<>>, head \o tail)

\* The blocks of the pieces that go back into the set.
RECURSIVE PiecesBlocks(_)
PiecesBlocks(subtraction) ==
  IF subtraction = <<>> THEN 0
  ELSE AddU64(Head(subtraction).num_blocks, PiecesBlocks(Tail(subtraction)))

\* The body of SubtractExtent's loop for an overlapping entry *it, with
\* subtraction == SubtractOverlappingExtents(*it, extent).
SubtractExtentStep(set, it, acc, subtraction) ==
  [begin_del   |-> IF acc.begin_del = SetEnd(set) THEN it ELSE acc.begin_del,
   end_del     |-> it + 1,
   del_blocks  |-> SubU64(AddU64(acc.del_blocks, set[it].num_blocks),
                          PiecesBlocks(subtraction)),
   new_extents |-> SetInsertAll(acc.new_extents, subtraction)]

\* The loop of SubtractExtent over [it, end()); acc holds its local variables.
RECURSIVE SubtractExtentLoop(_, _, _, _)
SubtractExtentLoop(set, extent, it, acc) ==
  IF it = SetEnd(set) THEN acc
  ELSE IF ~ExtentsOverlap(set[it], extent)
    THEN SubtractExtentLoop(set, extent, it + 1, acc)
    ELSE SubtractExtentLoop(set, extent, it + 1,
           SubtractExtentStep(set, it, acc,
             SubtractOverlappingExtents(set[it], extent)))

\* Mutant: blocks_ is not brought up to date.
SubtractExtentCommit_KeepBlocks(set, blocks, acc) ==
  [set    |-> SetInsertAll(SetErase(set, acc.begin_del, acc.end_del),
                           acc.new_extents),
   blocks |-> blocks,
   ok     |-> TRUE]

\* The erase, the insert and the update of blocks_ that end SubtractExtent.
SubtractExtentCommit(set, blocks, acc) ==
  [set    |-> SetInsertAll(SetErase(set, acc.begin_del, acc.end_del),
                           acc.new_extents),
   blocks |-> SubU64(blocks, acc.del_blocks),
   ok     |-> TRUE]

SubtractExtentIsNoop(extent) ==
  extent.start_block = kSparseHole \/ extent.num_blocks = 0

SubtractExtentResult(set, blocks, extent) ==
  IF SubtractExtentIsNoop(extent)
    THEN [set |-> set, blocks |-> blocks, ok |-> TRUE]
  ELSE SubtractExtentCommit(set, blocks,
         SubtractExtentLoop(set, extent, SetBegin,
           [begin_del |-> SetEnd(set), end_del |-> SetEnd(set),
            del_blocks |-> 0, new_extents |-> <<>>]))

(***************************************************************************)
(* The wrappers: AddBlock, SubtractBlock, AddExtents, SubtractExtents,     *)
(* AddRepeatedExtents, SubtractRepeatedExtents, AddRanges, SubtractRanges  *)
(***************************************************************************)
\* The loop of AddExtents, AddRepeatedExtents and AddRanges over the extents
\* left: AddExtent on each in turn; r is [set, blocks, ok] so far, and a
\* failed CHECK ends the process.
RECURSIVE AddEach(_, _, _)
AddEach(r, merge, extents) ==
  IF extents = <<>> \/ ~r.ok THEN r
  ELSE AddEach(AddExtentResult(r.set, r.blocks, merge, Head(extents)),
               merge, Tail(extents))

\* The loop of SubtractExtents, SubtractRepeatedExtents and SubtractRanges.
RECURSIVE SubtractEach(_, _)
SubtractEach(r, extents) ==
  IF extents = <<>> THEN r
  ELSE SubtractEach(SubtractExtentResult(r.set, r.blocks, Head(extents)),
                    Tail(extents))

AddBlockResult(set, blocks, merge, block) ==
  AddExtentResult(set, blocks, merge, ExtentForRange(block, 1))

SubtractBlockResult(set, blocks, block) ==
  SubtractExtentResult(set, blocks, ExtentForRange(block, 1))

AddExtentsResult(set, blocks, merge, extents) ==
  AddEach([set |-> set, blocks |-> blocks, ok |-> TRUE], merge, extents)

SubtractExtentsResult(set, blocks, extents) ==
  SubtractEach([set |-> set, blocks |-> blocks, ok |-> TRUE], extents)

\* AddRanges(ranges) walks ranges.extent_set_ with an iterator and calls
\* AddExtent(*it).  Handed the object itself (self), the first AddExtent
\* erases the entry the iterator stands on and ++it is made on an invalid
\* iterator: the behaviour is undefined as soon as there is an entry.
AddRangesResult(set, blocks, merge, ranges, self) ==
  [r       |-> AddExtentsResult(set, blocks, merge,
                                IF self THEN set ELSE ranges),
   defined |-> ~self \/ set = <<>>]

\* SubtractRanges(ranges): as AddRanges, with SubtractExtent(*it).
SubtractRangesResult(set, blocks, ranges, self) ==
  [r       |-> SubtractExtentsResult(set, blocks,
                                     IF self THEN set ELSE ranges),
   defined |-> ~self \/ set = <<>>]

(***************************************************************************)
(* ContainsBlock                                                           *)
(***************************************************************************)
\* The loop over [iter, upper).  Reaching end() before upper dereferences
\* end(): the behaviour is undefined (defined |-> FALSE).
RECURSIVE ContainsBlockLoop(_, _, _, _)
ContainsBlockLoop(set, block, iter, upper) ==
  IF iter = upper THEN [val |-> FALSE, defined |-> TRUE]
  ELSE IF iter = SetEnd(set) THEN [val |-> FALSE, defined |-> FALSE]
  ELSE IF set[iter].start_block <= block /\
          block < AddU64(set[iter].start_block, set[iter].num_blocks)
    THEN [val |-> TRUE, defined |-> TRUE]
    ELSE ContainsBlockLoop(set, block, iter + 1, upper)

\* Mutant: the extent before lower is not looked at.
ContainsBlockLower_NoStepBack(set, block) ==
  LowerBound(set, ExtentForRange(block, 1))

ContainsBlockLower(set, block) ==
  LET lower == LowerBound(set, ExtentForRange(block, 1))
  IN  IF lower # SetBegin THEN lower - 1 ELSE lower

ContainsBlockResult(set, block) ==
  ContainsBlockLoop(set, block, ContainsBlockLower(set, block),
                    LowerBound(set, ExtentForRange(AddU64(block, 1), 0)))

(***************************************************************************)
(* GetExtentsForBlockCount                                                 *)
(***************************************************************************)
\* Mutant: the last extent is returned whole.
TruncateLast_Whole(extent, blocks_needed) == extent

\* The last extent pushed, cut down to the blocks still needed.
TruncateLast(extent, blocks_needed) ==
  ExtentForRange(extent.start_block, blocks_needed)

\* The loop over [it, end()); acc is [out, out_blocks].
RECURSIVE GetExtentsLoop(_, _, _, _)
GetExtentsLoop(set, count, it, acc) ==
  IF it = SetEnd(set) THEN acc
  ELSE
    LET blocks_needed == SubU64(count, acc.out_blocks)
        extent        == set[it]
        out_blocks    == AddU64(acc.out_blocks, extent.num_blocks)
    IN  IF extent.num_blocks < blocks_needed
          THEN GetExtentsLoop(set, count, it + 1,
                 [out |-> Append(acc.out, extent), out_blocks |-> out_blocks])
        ELSE IF extent.num_blocks = blocks_needed
          THEN [out |-> Append(acc.out, extent), out_blocks |-> out_blocks]
        ELSE [out |-> Append(acc.out, TruncateLast(extent, blocks_needed)),
              out_blocks |-> AddU64(SubU64(out_blocks, extent.num_blocks),
                                    blocks_needed)]

\* The final CHECK and the return.
GetExtentsReturn(acc) ==
  IF acc.out_blocks = BlocksInExtents(acc.out)
    THEN [out |-> acc.out, check |-> "none"]
    ELSE [out |-> acc.out,
          check |-> "out_blocks == utils::BlocksInExtents(out)"]

\* Mutant: the precondition is checked with < instead of <=.
CountCheck_Strict(count, blocks) == count < blocks

\* CHECK(count <= blocks_)
CountCheck(count, blocks) == count <= blocks

\* [out, check]: check names the CHECK that failed, or "none".
GetExtentsForBlockCountResult(set, blocks, count) ==
  IF count = 0 THEN [out |-> <<>>, check |-> "none"]
  ELSE IF ~CountCheck(count, blocks)
    THEN [out |-> <<>>, check |-> "count <= blocks_"]
  ELSE GetExtentsReturn(GetExtentsLoop(set, count, SetBegin,
                                       [out |-> <<>>, out_blocks |-> 0]))

(***************************************************************************)
(* FilterExtentRanges                                                      *)
(***************************************************************************)
\* The inner loop over [iter, upper); acc is [extent, result, defined].
\* Reaching end() before upper dereferences end(): undefined behaviour.
RECURSIVE FilterLoop(_, _, _, _)
FilterLoop(set, iter, upper, acc) ==
  IF iter = upper THEN acc
  ELSE IF iter = SetEnd(set) THEN [acc EXCEPT !.defined = FALSE]
  ELSE IF ~ExtentsOverlap(acc.extent, set[iter])
    THEN FilterLoop(set, iter + 1, upper, acc)
  ELSE IF set[iter].start_block <= acc.extent.start_block
    THEN
      LET cut_blocks == SubU64(AddU64(set[iter].start_block,
                                      set[iter].num_blocks),
                               acc.extent.start_block)
      IN  IF cut_blocks >= acc.extent.num_blocks
            THEN [acc EXCEPT !.extent.num_blocks = 0]
            ELSE FilterLoop(set, iter + 1, upper,
                   [acc EXCEPT !.extent =
                      ExtentForRange(
                        AddU64(acc.extent.start_block, cut_blocks),
                        SubU64(acc.extent.num_blocks, cut_blocks))])
    ELSE
      LET piece     == ExtentForRange(acc.extent.start_block,
                         SubU64(set[iter].start_block,
                                acc.extent.start_block))
          new_start == AddU64(set[iter].start_block, set[iter].num_blocks)
          old_end   == AddU64(acc.extent.start_block, acc.extent.num_blocks)
      IN  IF new_start >= old_end
            THEN [acc EXCEPT !.extent.num_blocks = 0,
                             !.result = Append(acc.result, piece)]
            ELSE FilterLoop(set, iter + 1, upper,
                   [acc EXCEPT !.extent =
                                 ExtentForRange(new_start,
                                                SubU64(old_end, new_start)),
                               !.result = Append(acc.result, piece)])

FilterLower(set, extent) ==
  LET lower == LowerBound(set, extent)
  IN  IF lower # SetBegin THEN lower - 1 ELSE lower

\* The push of what is left of the extent after the inner loop.
FilterPushRest(acc) ==
  [result  |-> IF acc.extent.num_blocks > 0
                 THEN Append(acc.result, acc.extent)
                 ELSE acc.result,
   defined |-> acc.defined]

\* One iteration of the outer loop; acc is [result, defined] so far.
FilterOneExtent(set, extent, acc) ==
  FilterPushRest(
    FilterLoop(set, FilterLower(set, extent),
      LowerBound(set, ExtentForRange(
        AddU64(extent.start_block, extent.num_blocks), 0)),
      [extent |-> extent, result |-> acc.result, defined |-> acc.defined]))

\* The outer loop over the extents left; acc is [result, defined].
RECURSIVE FilterOuterLoop(_, _, _)
FilterOuterLoop(extents, set, acc) ==
  IF extents = <<>> \/ ~acc.defined THEN acc
  ELSE FilterOuterLoop(Tail(extents), set,
                       FilterOneExtent(set, Head(extents), acc))

\* [result, defined]
FilterExtentRangesResult(extents, set) ==
  FilterOuterLoop(extents, set, [result |-> <<>>, defined |-> TRUE])

\* The extents that the dereference of end() may read.  A walk first comes
\* to end() with a hole, which only an extent at the sentinel overlaps, and
\* what such an extent leaves of the hole is no hole, which no extent at the
\* sentinel overlaps.  So a value that starts elsewhere acts as the empty one
\* does, and a value longer than the hole as the longest one does.
PastTheEndValues == {ExtentForRange(kSparseHole, n) : n \in 0..MaxNum}

\* The body of the inner loop for the extent read at iter; stop is its break.
FilterBody(entry, acc) ==
  IF ~ExtentsOverlap(acc.extent, entry)
    THEN [acc |-> acc, stop |-> FALSE]
  ELSE IF entry.start_block <= acc.extent.start_block
    THEN
      LET cut_blocks == SubU64(AddU64(entry.start_block, entry.num_blocks),
                               acc.extent.start_block)
      IN  IF cut_blocks >= acc.extent.num_blocks
            THEN [acc  |-> [acc EXCEPT !.extent.num_blocks = 0],
                  stop |-> TRUE]
            ELSE [acc  |-> [acc EXCEPT !.extent =
                              ExtentForRange(
                                AddU64(acc.extent.start_block, cut_blocks),
                                SubU64(acc.extent.num_blocks, cut_blocks))],
                  stop |-> FALSE]
    ELSE
      LET piece     == ExtentForRange(acc.extent.start_block,
                         SubU64(entry.start_block, acc.extent.start_block))
          new_start == AddU64(entry.start_block, entry.num_blocks)
          old_end   == AddU64(acc.extent.start_block, acc.extent.num_blocks)
      IN  IF new_start >= old_end
            THEN [acc  |-> [acc EXCEPT !.extent.num_blocks = 0,
                                       !.result = Append(acc.result, piece)],
                  stop |-> TRUE]
            ELSE [acc  |-> [acc EXCEPT
                              !.extent = ExtentForRange(new_start,
                                           SubU64(old_end, new_start)),
                              !.result = Append(acc.result, piece)],
                  stop |-> FALSE]

\* The inner loop of a build that walks on past end(): the set of the values
\* acc may have when the loop ends, acc being [extent, result, defined].
\* What such a build meets at end() is not fixed by the entries: the extent
\* the dereference reads comes from the layout of the object, and the entry
\* the increment leads to from the shape of the tree, which the history of
\* the object decides.  seen holds the values extent had at end(): a walk
\* that comes back to end() with one of them repeats itself for ever, and
\* the call does not return.
RECURSIVE FilterWalk(_, _, _, _, _)
FilterWalk(set, iter, upper, acc, seen) ==
  IF iter = upper THEN {acc}
  ELSE IF iter = SetEnd(set)
    THEN
      IF acc.extent \in seen THEN {}
      ELSE UNION {IF b.stop THEN {b.acc}
                  ELSE UNION {FilterWalk(set, next, upper, b.acc,
                                         seen \cup {acc.extent}) :
                                next \in SetBegin..Len(set)} :
                    b \in {FilterBody(value, acc) :
                             value \in PastTheEndValues}}
  ELSE UNION {IF b.stop THEN {b.acc}
              ELSE FilterWalk(set, iter + 1, upper, b.acc, seen) :
                b \in {FilterBody(set[iter], acc)}}

\* One iteration of the outer loop of such a build: the results it may
\* leave, result being the vector so far.
FilterOneExtentPastEnd(set, extent, result) ==
  {FilterPushRest(acc).result : acc \in
     FilterWalk(set, FilterLower(set, extent),
       LowerBound(set, ExtentForRange(
         AddU64(extent.start_block, extent.num_blocks), 0)),
       [extent |-> extent, result |-> result, defined |-> TRUE],
       {})}

\* The outer loop of such a build over the extents left; results holds the
\* vectors it may have so far.
RECURSIVE FilterOuterLoopPastEnd(_, _, _)
FilterOuterLoopPastEnd(extents, set, results) ==
  IF extents = <<>> THEN results
  ELSE FilterOuterLoopPastEnd(Tail(extents), set,
         UNION {FilterOneExtentPastEnd(set, Head(extents), result) :
                  result \in results})

\* The vectors that the builds which walk on past end() return.
FilterExtentRangesPastEnd(extents, set) ==
  FilterOuterLoopPastEnd(extents, set, {<<>>})

(***************************************************************************)
(* OverlapsWithExtent, GetOverlapExtent, GetIntersectingExtents            *)
(***************************************************************************)
\* The range-for over the candidate range [it, e).  Reaching end() before e
\* dereferences end(): undefined behaviour (defined |-> FALSE).
RECURSIVE OverlapsWithExtentLoop(_, _, _, _)
OverlapsWithExtentLoop(set, extent, it, e) ==
  IF it = e THEN [val |-> FALSE, defined |-> TRUE]
  ELSE IF it = SetEnd(set) THEN [val |-> FALSE, defined |-> FALSE]
  ELSE IF ExtentsOverlap(set[it], extent)
    THEN [val |-> TRUE, defined |-> TRUE]
    ELSE OverlapsWithExtentLoop(set, extent, it + 1, e)

\* Walks the candidate range given.
OverlapsWithExtentOver(set, extent, range) ==
  OverlapsWithExtentLoop(set, extent, range.begin, range.end)

\* [val, defined]
OverlapsWithExtentResult(set, extent) ==
  OverlapsWithExtentOver(set, extent, GetCandidateRange(set, extent))

GetOverlapExtent(extent1, extent2) ==
  IF ~ExtentsOverlap(extent1, extent2) THEN EmptyExtent
  ELSE
    LET start_block == MaxU64(extent1.start_block, extent2.start_block)
        end_block   == MinU64(AddU64(extent1.start_block, extent1.num_blocks),
                              AddU64(extent2.start_block, extent2.num_blocks))
    IN  ExtentForRange(start_block, SubU64(end_block, start_block))

\* The test that lets an intersection into the result.
KeepIntersection(intersection) == intersection.num_blocks # 0

\* The range-for over the candidate range [it, e); acc is [result, defined].
RECURSIVE GetIntersectingLoop(_, _, _, _, _)
GetIntersectingLoop(set, extent, it, e, acc) ==
  IF it = e THEN acc
  ELSE IF it = SetEnd(set) THEN [acc EXCEPT !.defined = FALSE]
  ELSE GetIntersectingLoop(set, extent, it + 1, e,
         [acc EXCEPT !.result =
            IF KeepIntersection(GetOverlapExtent(set[it], extent))
              THEN Append(acc.result, GetOverlapExtent(set[it], extent))
              ELSE acc.result])

\* Walks the candidate range given.
GetIntersectingOver(set, extent, range) ==
  GetIntersectingLoop(set, extent, range.begin, range.end,
                      [result |-> <<>>, defined |-> TRUE])

\* [result, defined]
GetIntersectingExtentsResult(set, extent) ==
  GetIntersectingOver(set, extent, GetCandidateRange(set, extent))

\* The range-for of a build that walks on past end(): the set of the results
\* it may leave.  The walk goes on from end() as FilterWalk does; one that
\* comes back to end() repeats itself for ever, and the call does not return.
RECURSIVE GetIntersectingWalk(_, _, _, _, _, _)
GetIntersectingWalk(set, extent, it, e, result, passed) ==
  IF it = e THEN {result}
  ELSE IF it = SetEnd(set)
    THEN
      IF passed THEN {}
      ELSE UNION {GetIntersectingWalk(set, extent, next, e,
                    IF KeepIntersection(intersection)
                      THEN Append(result, intersection)
                      ELSE result,
                    TRUE) :
                    <<intersection, next>> \in
                      {GetOverlapExtent(value, extent) :
                         value \in PastTheEndValues}
                      \X (SetBegin..Len(set))}
  ELSE UNION {GetIntersectingWalk(set, extent, it + 1, e,
                IF KeepIntersection(intersection)
                  THEN Append(result, intersection)
                  ELSE result,
                passed) :
                intersection \in {GetOverlapExtent(set[it], extent)}}

\* The vectors that the builds which walk on past end() return.
GetIntersectingExtentsPastEnd(set, extent) ==
  UNION {GetIntersectingWalk(set, extent, range.begin, range.end, <<>>,
                             FALSE) :
           range \in {GetCandidateRange(set, extent)}}

(***************************************************************************)
(* The object and the calls made on it.                                    *)
(***************************************************************************)
VARIABLES
  merge_touching_extents_,  \* the constructor's flag
  extent_set_,              \* the entries, in iteration order
  blocks_,                  \* the cached block count
  call                      \* the last call: its name, arguments, outcome and
                            \* the object's state when it was made

vars == <<merge_touching_extents_, extent_set_, blocks_, call>>

\* Extents a caller hands in: holes (sentinel start), and empty extents and
\* intervals of real block indices, which lie below the sentinel.
Extents ==
  {x \in [start_block : U64, num_blocks : 0..MaxNum] :
     \/ x.start_block = kSparseHole
     \/ /\ x.start_block + x.num_blocks <= MaxBlock
        /\ MaxBlock <= kSparseHole}

\* Real block indices.
Blocks == 0..(MaxBlock - 1)

\* Inputs of FilterExtentRanges.
ExtentVectors ==
  {<<>>} \cup {<<a>> : a \in Extents} \cup {<<a, b>> : a, b \in Extents}

NoCall ==
  [op |-> "ExtentRanges", status |-> "returned",
   extent |-> EmptyExtent, other |-> EmptyExtent,
   block |-> 0, count |-> 0, extents |-> <<>>,
   ret_bool |-> FALSE, ret_extents |-> <<>>,
   ret_range |-> [begin |-> 1, end |-> 1], check |-> "none",
   self |-> FALSE, old_size |-> 0]

\* The call is recorded with the number of entries it found.
Called(op) == [NoCall EXCEPT !.op = op, !.old_size = Len(extent_set_)]

\* A failed CHECK aborts the process and nothing follows undefined
\* behaviour.  The queries are const: the calls that can follow one are the
\* calls that can follow the state it was made in, so a behaviour is followed
\* up to its first query.  A wrapper that returns leaves the object as the
\* AddExtent or SubtractExtent calls it makes leave it, so a behaviour is
\* followed up to its first wrapper call, too.
Running ==
  /\ call.status = "returned"
  /\ call.op \in {"ExtentRanges", "AddExtent", "SubtractExtent"}

Init ==
  /\ merge_touching_extents_ \in BOOLEAN
  /\ extent_set_ = <<>>
  /\ blocks_ = 0
  /\ call = NoCall

AddExtent(extent) ==
  /\ Running
  /\ \E r \in {AddExtentResult(extent_set_, blocks_, merge_touching_extents_,
                               extent)} :
         /\ extent_set_' = IF r.ok THEN r.set ELSE extent_set_
         /\ blocks_' = IF r.ok THEN r.blocks ELSE blocks_
         /\ call' = [Called("AddExtent") EXCEPT
                       !.extent = extent,
                       !.status = IF r.ok THEN "returned" ELSE "check failed",
                       !.check = IF r.ok THEN "none"
                                 ELSE "kSparseHole != start_block"]
  /\ UNCHANGED merge_touching_extents_

SubtractExtent(extent) ==
  /\ Running
  /\ \E r \in {SubtractExtentResult(extent_set_, blocks_, extent)} :
         /\ extent_set_' = r.set
         /\ blocks_' = r.blocks
         /\ call' = [Called("SubtractExtent") EXCEPT !.extent = extent]
  /\ UNCHANGED merge_touching_extents_

ContainsBlock(block) ==
  /\ Running
  /\ \E r \in {ContainsBlockResult(extent_set_, block)} :
         \E b \in (IF r.defined THEN {r.val} ELSE BOOLEAN) :
           call' = [Called("ContainsBlock") EXCEPT
                      !.block = block,
                      !.ret_bool = b,
                      !.status = IF r.defined THEN "returned"
                                 ELSE "undefined"]
  /\ UNCHANGED <<merge_touching_extents_, extent_set_, blocks_>>

GetExtentsForBlockCount(count) ==
  /\ Running
  /\ \E r \in {GetExtentsForBlockCountResult(extent_set_, blocks_, count)} :
         call' = [Called("GetExtentsForBlockCount") EXCEPT
                    !.count = count,
                    !.ret_extents = IF r.check = "none" THEN r.out ELSE <<>>,
                    !.status = IF r.check = "none" THEN "returned"
                               ELSE "check failed",
                    !.check = r.check]
  /\ UNCHANGED <<merge_touching_extents_, extent_set_, blocks_>>

\* With the behaviour undefined the call may return anything or not at all.
\* The results it may give are those of the walks past end(), the input
\* itself, and the empty vector, which also stands for no return.
FilterExtentRanges(extents) ==
  /\ Running
  /\ \E r \in {FilterExtentRangesResult(extents, extent_set_)} :
         \E out \in (IF r.defined THEN {r.result}
                     ELSE {<<>>, extents} \cup
                          FilterExtentRangesPastEnd(extents, extent_set_)) :
           call' = [Called("FilterExtentRanges") EXCEPT
                      !.extents = extents,
                      !.ret_extents = out,
                      !.status = IF r.defined THEN "returned"
                                 ELSE "undefined"]
  /\ UNCHANGED <<merge_touching_extents_, extent_set_, blocks_>>

OverlapsWithExtent(extent) ==
  /\ Running
  /\ \E r \in {OverlapsWithExtentResult(extent_set_, extent)} :
         \E b \in (IF r.defined THEN {r.val} ELSE BOOLEAN) :
           call' = [Called("OverlapsWithExtent") EXCEPT
                      !.extent = extent,
                      !.ret_bool = b,
                      !.status = IF r.defined THEN "returned"
                                 ELSE "undefined"]
  /\ UNCHANGED <<merge_touching_extents_, extent_set_, blocks_>>

\* With the behaviour undefined the call may return anything or not at all.
\* The results it may give are those of the walks past end(), the query
\* itself, and the empty vector, which also stands for no return.
GetIntersectingExtents(extent) ==
  /\ Running
  /\ \E r \in {GetIntersectingExtentsResult(extent_set_, extent)} :
         \E out \in (IF r.defined THEN {r.result}
                     ELSE {<<>>, <<extent>>} \cup
                          GetIntersectingExtentsPastEnd(extent_set_,
                                                        extent)) :
           call' = [Called("GetIntersectingExtents") EXCEPT
                      !.extent = extent,
                      !.ret_extents = out,
                      !.status = IF r.defined THEN "returned"
                                 ELSE "undefined"]
  /\ UNCHANGED <<merge_touching_extents_, extent_set_, blocks_>>

\* The private helper on its own: the pair of iterators it returns.
CallGetCandidateRange(extent) ==
  /\ Running
  /\ call' = [Called("GetCandidateRange") EXCEPT
                !.extent = extent,
                !.ret_range = GetCandidateRange(extent_set_, extent)]
  /\ UNCHANGED <<merge_touching_extents_, extent_set_, blocks_>>

\* The static predicates, applied to a pair of extents.
CallExtentsOverlap(a, b) ==
  /\ call.op = "ExtentRanges"
  /\ call' = [Called("ExtentsOverlap") EXCEPT
                !.extent = a, !.other = b,
                !.ret_bool = ExtentsOverlap(a, b)]
  /\ UNCHANGED <<merge_touching_extents_, extent_set_, blocks_>>

CallExtentsOverlapOrTouch(a, b) ==
  /\ call.op = "ExtentRanges"
  /\ call' = [Called("ExtentsOverlapOrTouch") EXCEPT
                !.extent = a, !.other = b,
                !.ret_bool = ExtentsOverlapOrTouch(a, b)]
  /\ UNCHANGED <<merge_touching_extents_, extent_set_, blocks_>>

\* The record of a call that hands r, [set, blocks, ok], to the object.
Mutated(op, r) ==
  [Called(op) EXCEPT
     !.status = IF r.ok THEN "returned" ELSE "check failed",
     !.check = IF r.ok THEN "none" ELSE "kSparseHole != start_block"]

AddBlock(block) ==
  /\ Running
  /\ \E r \in {AddBlockResult(extent_set_, blocks_, merge_touching_extents_,
                              block)} :
         /\ extent_set_' = r.set
         /\ blocks_' = r.blocks
         /\ call' = [Mutated("AddBlock", r) EXCEPT !.block = block]
  /\ UNCHANGED merge_touching_extents_

SubtractBlock(block) ==
  /\ Running
  /\ \E r \in {SubtractBlockResult(extent_set_, blocks_, block)} :
         /\ extent_set_' = r.set
         /\ blocks_' = r.blocks
         /\ call' = [Mutated("SubtractBlock", r) EXCEPT !.block = block]
  /\ UNCHANGED merge_touching_extents_

AddExtents(extents) ==
  /\ Running
  /\ \E r \in {AddExtentsResult(extent_set_, blocks_,
                                merge_touching_extents_, extents)} :
         /\ extent_set_' = r.set
         /\ blocks_' = r.blocks
         /\ call' = [Mutated("AddExtents", r) EXCEPT !.extents = extents]
  /\ UNCHANGED merge_touching_extents_

SubtractExtents(extents) ==
  /\ Running
  /\ \E r \in {SubtractExtentsResult(extent_set_, blocks_, extents)} :
         /\ extent_set_' = r.set
         /\ blocks_' = r.blocks
         /\ call' = [Mutated("SubtractExtents", r) EXCEPT !.extents = extents]
  /\ UNCHANGED merge_touching_extents_

\* The RepeatedPtrField is walked by index, as the vector is by iterator.
AddRepeatedExtents(exts) ==
  /\ Running
  /\ \E r \in {AddExtentsResult(extent_set_, blocks_,
                                merge_touching_extents_, exts)} :
         /\ extent_set_' = r.set
         /\ blocks_' = r.blocks
         /\ call' = [Mutated("AddRepeatedExtents", r) EXCEPT !.extents = exts]
  /\ UNCHANGED merge_touching_extents_

SubtractRepeatedExtents(exts) ==
  /\ Running
  /\ \E r \in {SubtractExtentsResult(extent_set_, blocks_, exts)} :
         /\ extent_set_' = r.set
         /\ blocks_' = r.blocks
         /\ call' = [Mutated("SubtractRepeatedExtents", r) EXCEPT
                       !.extents = exts]
  /\ UNCHANGED merge_touching_extents_

\* ranges is the extent_set_ of the object handed in; self says that it is
\* this object.  With the behaviour undefined the call may end the process,
\* not return, or return: the object is left as it was or as the calls made
\* on a copy of the entries would leave it.
AddRanges(ranges, self) ==
  /\ Running
  /\ self => ranges = extent_set_
  /\ \E a \in {AddRangesResult(extent_set_, blocks_,
                               merge_touching_extents_, ranges, self)} :
       \E r \in (IF a.defined THEN {a.r}
                 ELSE {a.r, [set |-> extent_set_, blocks |-> blocks_,
                             ok |-> TRUE]}) :
         /\ extent_set_' = r.set
         /\ blocks_' = r.blocks
         /\ call' = [Mutated("AddRanges", r) EXCEPT
                       !.extents = ranges,
                       !.self = self,
                       !.status = IF ~a.defined THEN "undefined"
                                  ELSE IF r.ok THEN "returned"
                                  ELSE "check failed"]
  /\ UNCHANGED merge_touching_extents_

SubtractRanges(ranges, self) ==
  /\ Running
  /\ self => ranges = extent_set_
  /\ \E a \in {SubtractRangesResult(extent_set_, blocks_, ranges, self)} :
       \E r \in (IF a.defined THEN {a.r}
                 ELSE {a.r, [set |-> extent_set_, blocks |-> blocks_,
                             ok |-> TRUE]}) :
         /\ extent_set_' = r.set
         /\ blocks_' = r.blocks
         /\ call' = [Mutated("SubtractRanges", r) EXCEPT
                       !.extents = ranges,
                       !.self = self,
                       !.status = IF a.defined THEN "returned"
                                  ELSE "undefined"]
  /\ UNCHANGED merge_touching_extents_

DoAddExtent == \E extent \in Extents : AddExtent(extent)

DoSubtractExtent == \E extent \in Extents : SubtractExtent(extent)

DoContainsBlock == \E block \in Blocks : ContainsBlock(block)

DoGetExtentsForBlockCount == \E count \in U64 : GetExtentsForBlockCount(count)

DoFilterExtentRanges == \E extents \in ExtentVectors : FilterExtentRanges(extents)

Next ==
  \/ DoAddExtent
  \/ DoSubtractExtent
  \/ DoContainsBlock
  \/ DoGetExtentsForBlockCount

Spec == Init /\ [][Next]_vars

\* The objects are built by AddExtent alone: every set that AddExtent and
\* SubtractExtent reach is reached by adding its entries one by one.
NextFilter ==
  \/ DoAddExtent
  \/ DoFilterExtentRanges

SpecFilter == Init /\ [][NextFilter]_vars

\* AddExtent alone: every set that AddExtent and SubtractExtent reach is
\* reached by adding its entries one by one.
NextAdd == DoAddExtent

SpecAdd == Init /\ [][NextAdd]_vars

\* The blocks handed to AddBlock and SubtractBlock: real block indices and
\* the sentinel.
BlockArgs == Blocks \cup {kSparseHole}

\* The entries of the objects handed to AddRanges and SubtractRanges: what
\* the extents of a vector leave in an object that does not merge touching
\* extents.
RangesArgs ==
  {AddExtentsResult(<<>>, 0, FALSE, extents).set : extents \in ExtentVectors}

DoAddBlock == \E block \in BlockArgs : AddBlock(block)

DoSubtractBlock == \E block \in BlockArgs : SubtractBlock(block)

DoAddExtents == \E extents \in ExtentVectors : AddExtents(extents)

DoSubtractExtents == \E extents \in ExtentVectors : SubtractExtents(extents)

DoAddRepeatedExtents == \E exts \in ExtentVectors : AddRepeatedExtents(exts)

DoSubtractRepeatedExtents ==
  \E exts \in ExtentVectors : SubtractRepeatedExtents(exts)

DoAddRanges ==
  \/ \E ranges \in RangesArgs : AddRanges(ranges, FALSE)
  \/ AddRanges(extent_set_, TRUE)

DoSubtractRanges ==
  \/ \E ranges \in RangesArgs : SubtractRanges(ranges, FALSE)
  \/ SubtractRanges(extent_set_, TRUE)

\* The wrappers of AddExtent, on the sets that AddExtent builds.
NextBulkAdd ==
  \/ DoAddExtent
  \/ DoAddBlock
  \/ DoAddExtents
  \/ DoAddRepeatedExtents
  \/ DoAddRanges

SpecBulkAdd == Init /\ [][NextBulkAdd]_vars

\* The wrappers of SubtractExtent, on the sets that AddExtent builds.
NextBulkSubtract ==
  \/ DoAddExtent
  \/ DoSubtractBlock
  \/ DoSubtractExtents
  \/ DoSubtractRepeatedExtents
  \/ DoSubtractRanges

SpecBulkSubtract == Init /\ [][NextBulkSubtract]_vars

DoOverlapsWithExtent == \E extent \in Extents : OverlapsWithExtent(extent)

DoGetIntersectingExtents ==
  \E extent \in Extents : GetIntersectingExtents(extent)

DoGetCandidateRange == \E extent \in Extents : CallGetCandidateRange(extent)

NextQuery ==
  \/ DoAddExtent
  \/ DoSubtractExtent
  \/ DoOverlapsWithExtent
  \/ DoGetIntersectingExtents
  \/ DoGetCandidateRange

SpecQuery == Init /\ [][NextQuery]_vars

DoExtentsOverlap == \E a, b \in Extents : CallExtentsOverlap(a, b)

DoExtentsOverlapOrTouch ==
  \E a, b \in Extents : CallExtentsOverlapOrTouch(a, b)

NextStatic ==
  \/ DoExtentsOverlap
  \/ DoExtentsOverlapOrTouch

SpecStatic == Init /\ [][NextStatic]_vars

(***************************************************************************)
(* What the properties speak about: extents as sets of block indices, in   *)
(* unbounded integers.                                                     *)
(***************************************************************************)
\* The half-open interval [start_block, start_block + num_blocks).
BlocksOf(e) == e.start_block .. (e.start_block + e.num_blocks - 1)

EndOf(e) == e.start_block + e.num_blocks

Entries(set) == {set[i] : i \in DOMAIN set}

Covered(set) == UNION {BlocksOf(e) : e \in Entries(set)}

Share(a, b) == BlocksOf(a) \cap BlocksOf(b) # {}

Touch(a, b) == EndOf(a) = b.start_block \/ EndOf(b) = a.start_block

Degenerate(e) == e.start_block = kSparseHole \/ e.num_blocks = 0

RECURSIVE SumBlocks(_)
SumBlocks(extents) ==
  IF extents = <<>> THEN 0
  ELSE Head(extents).num_blocks + SumBlocks(Tail(extents))

\* C1: in every reachable state the entries are sorted ascending by
\* start_block and no two of them share a block; with merge_touching_extents_
\* set, no entry ends where another one starts.
C1_SortedDisjoint ==
  /\ \A i, j \in DOMAIN extent_set_ :
       i < j => /\ extent_set_[i].start_block < extent_set_[j].start_block
                /\ ~Share(extent_set_[i], extent_set_[j])
  /\ merge_touching_extents_ =>
       \A i, j \in DOMAIN extent_set_ :
         i # j => ~Touch(extent_set_[i], extent_set_[j])

\* An AddExtent has just joined entries in merge mode and left others apart.
C1_Witness ==
  /\ merge_touching_extents_
  /\ call.op = "AddExtent"
  /\ Len(extent_set_) >= 2
  /\ \E i \in DOMAIN extent_set_ :
       /\ BlocksOf(call.extent) \subseteq BlocksOf(extent_set_[i])
       /\ extent_set_[i].num_blocks > call.extent.num_blocks

\* C2: in every reachable state blocks_ is the sum of num_blocks over the
\* entries.
C2_BlocksIsSum == blocks_ = SumBlocks(extent_set_)

\* An AddExtent has just consumed entries and a set of several entries is left.
C2_Witness ==
  /\ call.op = "AddExtent"
  /\ Len(extent_set_) >= 2
  /\ blocks_ >= 4
  /\ \E i \in DOMAIN extent_set_ :
       /\ BlocksOf(call.extent) \subseteq BlocksOf(extent_set_[i])
       /\ extent_set_[i].num_blocks > call.extent.num_blocks

\* C3: ContainsBlock(x) returns true exactly when some entry e has
\* e.start_block <= x < e.start_block + e.num_blocks.
C3_ContainsBlock ==
  call.op = "ContainsBlock" =>
    /\ call.status = "returned"
    /\ call.ret_bool <=>
         \E i \in DOMAIN extent_set_ :
           /\ extent_set_[i].start_block <= call.block
           /\ call.block < extent_set_[i].start_block + extent_set_[i].num_blocks

\* ContainsBlock found a block that is inside an entry, past the entry's
\* first block, in a set of several entries.
C3_Witness ==
  /\ call.op = "ContainsBlock"
  /\ call.ret_bool
  /\ Len(extent_set_) >= 2
  /\ \E i \in DOMAIN extent_set_ :
       /\ i > 1
       /\ extent_set_[i].start_block < call.block
       /\ call.block < EndOf(extent_set_[i])

\* The least extent that spans every extent of S.
Span(S) ==
  LET start == Min({e.start_block : e \in S})
      end   == CHOOSE m \in {EndOf(e) : e \in S} : \A e \in S : EndOf(e) <= m
  IN  ExtentForRange(start, end - start)

\* What AddExtent(E) is to do to the entries: old before, new after.
AddEffect(old, new, merge, E) ==
  LET removed == {e \in Entries(old) : Share(e, E) \/ (merge /\ Touch(e, E))}
  IN  /\ Entries(new) = (Entries(old) \ removed) \cup {Span(removed \cup {E})}
      /\ Len(new) = Cardinality(Entries(new))
      /\ Covered(new) = Covered(old) \cup BlocksOf(E)

\* C4: AddExtent(E) with a non-degenerate E removes exactly the entries that
\* overlap E (in merge mode: overlap or touch E), inserts the union of E with
\* the removed entries and leaves the other entries as they were; the covered
\* blocks afterwards are the covered blocks before plus the blocks of E.
C4_AddExtentEffect ==
  [][(call'.op = "AddExtent" /\ ~Degenerate(call'.extent)) =>
       /\ call'.status = "returned"
       /\ AddEffect(extent_set_, extent_set_', merge_touching_extents_,
                    call'.extent)]_vars

\* An AddExtent has just consumed at least two entries, and the entry that
\* holds it reaches beyond it on both sides.
C4_Witness ==
  /\ call.op = "AddExtent"
  /\ ~Degenerate(call.extent)
  /\ Len(extent_set_) < call.old_size
  /\ \E i \in DOMAIN extent_set_ :
       /\ extent_set_[i].start_block < call.extent.start_block
       /\ EndOf(call.extent) < EndOf(extent_set_[i])

\* What SubtractExtent(E) is to do to the entries: old before, new after.
SubtractEffect(old, new, E) ==
  LET hit    == {e \in Entries(old) : Share(e, E)}
      before == {ExtentForRange(e.start_block, E.start_block - e.start_block) :
                   e \in {h \in hit : h.start_block < E.start_block}}
      after  == {ExtentForRange(EndOf(E), EndOf(e) - EndOf(E)) :
                   e \in {h \in hit : EndOf(h) > EndOf(E)}}
  IN  /\ Entries(new) = (Entries(old) \ hit) \cup before \cup after
      /\ Len(new) = Cardinality(Entries(new))
      /\ Covered(new) = Covered(old) \ BlocksOf(E)
      /\ \A n \in Entries(new) :
           Cardinality({o \in Entries(old) :
                          BlocksOf(n) \subseteq BlocksOf(o)}) = 1
      /\ Len(new) <= Len(old) + 1

\* C5: SubtractExtent(E) with a non-degenerate E replaces every entry that
\* overlaps E by its part before E and its part after E (where not empty) and
\* leaves the other entries as they were; the covered blocks afterwards are
\* those before minus the blocks of E, every entry left lies within exactly
\* one former entry, and there is at most one entry more than before.
C5_SubtractExtentEffect ==
  [][(call'.op = "SubtractExtent" /\ ~Degenerate(call'.extent)) =>
       /\ call'.status = "returned"
       /\ SubtractEffect(extent_set_, extent_set_', call'.extent)]_vars

\* A SubtractExtent has just split an entry in two around the extent.
C5_Witness ==
  /\ call.op = "SubtractExtent"
  /\ ~Degenerate(call.extent)
  /\ Len(extent_set_) = call.old_size + 1
  /\ \E i \in DOMAIN extent_set_ :
       /\ i + 1 \in DOMAIN extent_set_
       /\ EndOf(extent_set_[i]) = call.extent.start_block
       /\ extent_set_[i + 1].start_block = EndOf(call.extent)

\* The n lowest-numbered blocks that the entries cover.
LowestCovered(set, n) ==
  {x \in Covered(set) : Cardinality({y \in Covered(set) : y < x}) < n}

\* C6: for 0 < n <= total_blocks, GetExtentsForBlockCount(n) returns extents
\* in ascending start order whose num_blocks sum to n; each but the last is a
\* stored entry, the last is a prefix of a stored entry, and together they
\* cover exactly the n lowest-numbered covered blocks.
C6_TakeN ==
  (call.op = "GetExtentsForBlockCount" /\ 0 < call.count /\
   call.count <= blocks_) =>
    /\ call.status = "returned"
    /\ Len(call.ret_extents) \in 1..Len(extent_set_)
    /\ \A i, j \in DOMAIN call.ret_extents :
         i < j =>
           call.ret_extents[i].start_block < call.ret_extents[j].start_block
    /\ SumBlocks(call.ret_extents) = call.count
    /\ \A k \in 1..(Len(call.ret_extents) - 1) :
         call.ret_extents[k] = extent_set_[k]
    /\ \E e \in Entries(extent_set_) :
         /\ call.ret_extents[Len(call.ret_extents)].start_block = e.start_block
         /\ call.ret_extents[Len(call.ret_extents)].num_blocks \in
              1..e.num_blocks
    /\ Covered(call.ret_extents) = LowestCovered(extent_set_, call.count)

\* The call returned whole entries and then a truncated one.
C6_Witness ==
  /\ call.op = "GetExtentsForBlockCount"
  /\ call.status = "returned"
  /\ Len(call.ret_extents) >= 2
  /\ Len(extent_set_) > Len(call.ret_extents)
  /\ call.ret_extents[Len(call.ret_extents)].num_blocks <
       extent_set_[Len(call.ret_extents)].num_blocks

\* C7: GetExtentsForBlockCount(count) fails its first CHECK, returning
\* nothing, exactly when count > total_blocks; with count = 0 it returns the
\* empty sequence; with 0 < count <= total_blocks no CHECK fails.
C7_TakeNFailure ==
  call.op = "GetExtentsForBlockCount" =>
    /\ call.status = "check failed" <=> call.count > blocks_
    /\ call.status = "check failed" =>
         call.check = "count <= blocks_" /\ call.ret_extents = <<>>
    /\ call.count = 0 =>
         call.status = "returned" /\ call.ret_extents = <<>>
    /\ (0 < call.count /\ call.count <= blocks_) =>
         call.status = "returned" /\ call.check = "none"

\* More blocks were asked of a set of several entries than it holds.
C7_Witness ==
  /\ call.op = "GetExtentsForBlockCount"
  /\ call.status = "check failed"
  /\ call.count = blocks_ + 1
  /\ Len(extent_set_) >= 2

\* C10: AddExtent and SubtractExtent with a hole or a zero-length extent
\* leave the entries and blocks_ as they were.
C10_DegenerateNoop ==
  [][(call'.op \in {"AddExtent", "SubtractExtent"} /\
      Degenerate(call'.extent)) =>
       /\ call'.status = "returned"
       /\ extent_set_' = extent_set_
       /\ blocks_' = blocks_]_vars

\* AddExtent was called on a set of several entries with a zero-length extent
\* that starts inside one of them.
C10_Witness ==
  /\ call.op = "AddExtent"
  /\ call.extent.num_blocks = 0
  /\ Len(extent_set_) >= 2
  /\ \E i \in DOMAIN extent_set_ :
       /\ extent_set_[i].start_block < call.extent.start_block
       /\ call.extent.start_block < EndOf(extent_set_[i])

\* The number of blocks of the input extents that the entries cover, each
\* input extent counted on its own.
RECURSIVE CoveredBlocksOf(_, _)
CoveredBlocksOf(extents, set) ==
  IF extents = <<>> THEN 0
  ELSE Cardinality(BlocksOf(Head(extents)) \cap Covered(set)) +
       CoveredBlocksOf(Tail(extents), set)

\* C8: the num_blocks of the output of FilterExtentRanges sum to the sum over
\* the input extents minus, for each input extent, the number of its blocks
\* that the exclude set covers.
C8_FilterAccounting ==
  call.op = "FilterExtentRanges" =>
    /\ call.status = "returned"
    /\ SumBlocks(call.ret_extents) =
         SumBlocks(call.extents) - CoveredBlocksOf(call.extents, extent_set_)

\* pieces is what is left of the input extent e: non-empty pieces, ascending
\* and disjoint, that hold the blocks of e the set does not cover and no
\* other block.
PiecesOf(pieces, e, set) ==
  /\ \A i \in DOMAIN pieces : pieces[i].num_blocks > 0
  /\ \A i, j \in DOMAIN pieces :
       i < j => EndOf(pieces[i]) <= pieces[j].start_block
  /\ Covered(pieces) = BlocksOf(e) \ Covered(set)

\* out is the concatenation, in input order, of the pieces of each extent.
RECURSIVE ConcatOfPieces(_, _, _)
ConcatOfPieces(out, extents, set) ==
  IF extents = <<>> THEN out = <<>>
  ELSE \E c \in 0..Len(out) :
         /\ PiecesOf(SubSeq(out, 1, c), Head(extents), set)
         /\ ConcatOfPieces(SubSeq(out, c + 1, Len(out)), Tail(extents), set)

\* C9: the output of FilterExtentRanges is the concatenation, in input
\* order, of per-input-extent piece lists; the pieces of one input extent are
\* non-empty, ascending and disjoint, hold no block the exclude set covers
\* and hold every block of that input extent it does not cover.
C9_FilterPieces ==
  call.op = "FilterExtentRanges" =>
    /\ call.status = "returned"
    /\ ConcatOfPieces(call.ret_extents, call.extents, extent_set_)

\* C8 and C9 where the input holds no hole of one or more blocks.
FilterOfRealExtents ==
  (call.op = "FilterExtentRanges" /\
   \A i \in DOMAIN call.extents :
     call.extents[i].start_block # kSparseHole \/
     call.extents[i].num_blocks = 0) =>
    /\ call.status = "returned"
    /\ SumBlocks(call.ret_extents) =
         SumBlocks(call.extents) - CoveredBlocksOf(call.extents, extent_set_)
    /\ ConcatOfPieces(call.ret_extents, call.extents, extent_set_)

\* C11: in every reachable state no entry starts at the sparse-hole sentinel
\* and no entry has num_blocks = 0; a SubtractExtent that trims an entry
\* exactly to its boundary leaves no zero-length residual.
C11_NoDegenerateEntry ==
  \A i \in DOMAIN extent_set_ :
    /\ extent_set_[i].start_block # kSparseHole
    /\ extent_set_[i].num_blocks # 0

\* A SubtractExtent has just cut the front off an entry: what is left of it
\* starts where the extent ends, nothing is left before the extent, and the
\* number of entries is the same.
C11_Witness ==
  /\ call.op = "SubtractExtent"
  /\ ~Degenerate(call.extent)
  /\ Len(extent_set_) = call.old_size
  /\ \E i \in DOMAIN extent_set_ :
       extent_set_[i].start_block = EndOf(call.extent)
  /\ \A i \in DOMAIN extent_set_ :
       EndOf(extent_set_[i]) # call.extent.start_block

\* The entries that E touches.
Touched(set, E) == {e \in Entries(set) : Touch(e, E)}

\* E touches at least one entry and overlaps none.
TouchesOnly(set, E) ==
  /\ ~Degenerate(E)
  /\ Touched(set, E) # {}
  /\ \A e \in Entries(set) : ~Share(e, E)

\* C12: an AddExtent(E) whose E touches entries but overlaps none keeps, with
\* merge_touching_extents_ off, every entry as it was and stores E as an entry
\* of its own; with the setting on it replaces the entries E touches by one
\* entry spanning them and E; blocks_ grows by the blocks of E either way.
\* Add {5,3}, Add {8,2} on an empty set (here four blocks lower: {1,3},
\* {4,2}) gives {5,3} and {8,2} with the setting off and {5,5} with it on,
\* and blocks_ = 5 in both cases.
C12_TouchingAdd ==
  [][/\ (call'.op = "AddExtent" /\ TouchesOnly(extent_set_, call'.extent)) =>
          /\ call'.status = "returned"
          /\ blocks_' = blocks_ + call'.extent.num_blocks
          /\ Len(extent_set_') = Cardinality(Entries(extent_set_'))
          /\ ~merge_touching_extents_ =>
               Entries(extent_set_') =
                 Entries(extent_set_) \cup {call'.extent}
          /\ merge_touching_extents_ =>
               Entries(extent_set_') =
                 (Entries(extent_set_) \ Touched(extent_set_, call'.extent))
                   \cup {Span(Touched(extent_set_, call'.extent)
                                \cup {call'.extent})}
     /\ (/\ call.op = "AddExtent"
         /\ call.extent = ExtentForRange(1, 3)
         /\ call.old_size = 0
         /\ call'.op = "AddExtent"
         /\ call'.extent = ExtentForRange(4, 2)) =>
          /\ blocks_' = 5
          /\ extent_set_' =
               IF merge_touching_extents_
                 THEN <<ExtentForRange(1, 5)>>
                 ELSE <<ExtentForRange(1, 3), ExtentForRange(4, 2)>>]_vars

\* With the setting off an AddExtent has just stored its extent between two
\* entries that it touches on either side.
C12_Witness ==
  /\ ~merge_touching_extents_
  /\ call.op = "AddExtent"
  /\ Len(extent_set_) = call.old_size + 1
  /\ \E i \in DOMAIN extent_set_ :
       /\ extent_set_[i] = call.extent
       /\ i - 1 \in DOMAIN extent_set_
       /\ i + 1 \in DOMAIN extent_set_
       /\ EndOf(extent_set_[i - 1]) = call.extent.start_block
       /\ extent_set_[i + 1].start_block = EndOf(call.extent)

\* C13: AddExtent(E) made right after AddExtent(E) leaves the entries and
\* blocks_ as the first call left them, whatever the set, the mode and E.
C13_AddIdempotent ==
  [][(/\ call.op = "AddExtent"
      /\ call.status = "returned"
      /\ call'.op = "AddExtent"
      /\ call'.extent = call.extent) =>
       /\ call'.status = "returned"
       /\ extent_set_' = extent_set_
       /\ blocks_' = blocks_]_vars

\* An AddExtent found every block of its extent covered already, by an entry
\* that reaches beyond it, in a set of several entries it left as many.
C13_Witness ==
  /\ call.op = "AddExtent"
  /\ ~Degenerate(call.extent)
  /\ Len(extent_set_) = call.old_size
  /\ Len(extent_set_) >= 2
  /\ \E i \in DOMAIN extent_set_ :
       /\ extent_set_[i].start_block < call.extent.start_block
       /\ EndOf(call.extent) <= EndOf(extent_set_[i])

\* C14: on an empty set, AddExtent(E) followed by SubtractExtent(E), with E
\* neither a hole nor empty, leaves no entry and blocks_ = 0, in both modes.
C14_AddThenSubtract ==
  [][(/\ call.op = "AddExtent"
      /\ call.status = "returned"
      /\ call.old_size = 0
      /\ ~Degenerate(call.extent)
      /\ call'.op = "SubtractExtent"
      /\ call'.extent = call.extent) =>
       /\ call'.status = "returned"
       /\ extent_set_' = <<>>
       /\ blocks_' = 0]_vars

\* A SubtractExtent of several blocks has just removed the only entry.
C14_Witness ==
  /\ call.op = "SubtractExtent"
  /\ call.extent.start_block # kSparseHole
  /\ call.extent.num_blocks >= 2
  /\ call.old_size = 1
  /\ extent_set_ = <<>>
  /\ blocks_ = 0

\* a and b neither overlap nor touch.
Apart(a, b) == ~Share(a, b) /\ ~Touch(a, b)

\* r_ab is what AddExtent(b) leaves after AddExtent(a), r_ba what AddExtent(a)
\* leaves after AddExtent(b): the same entries and the same blocks_.
SameResult(r_ab, r_ba) ==
  /\ r_ab.ok /\ r_ba.ok
  /\ r_ab.set = r_ba.set
  /\ r_ab.blocks = r_ba.blocks

\* AddExtent(b) lands, after the AddExtent(a) just made, where AddExtent(b);
\* AddExtent(a) lands from the state before.
CommutesWith(set, blocks, set_a, blocks_a, merge, a, b) ==
  \A r_b \in {AddExtentResult(set, blocks, merge, b)} :
    /\ r_b.ok
    /\ \A r_ab \in {AddExtentResult(set_a, blocks_a, merge, b)} :
         \A r_ba \in {AddExtentResult(r_b.set, r_b.blocks, merge, a)} :
           SameResult(r_ab, r_ba)

\* C15: for extents a and b that neither overlap nor touch each other,
\* AddExtent(a); AddExtent(b) leaves the same entries and the same blocks_ as
\* AddExtent(b); AddExtent(a), from every reachable set and in both modes.
\* The statement is the same for the pair (a, b) and the pair (b, a): it is
\* checked at the AddExtent steps of the one that comes first in ExtentLess.
C15_AddCommutes ==
  [][(call'.op = "AddExtent" /\ call'.status = "returned") =>
       \A b \in Extents :
         (Apart(call'.extent, b) /\ ExtentLess(call'.extent, b)) =>
           CommutesWith(extent_set_, blocks_, extent_set_', blocks_',
                        merge_touching_extents_, call'.extent, b)]_vars

\* An AddExtent has just joined its extent with an entry, and another entry
\* lies beyond a gap: a later AddExtent there is apart from this one.
C15_Witness ==
  /\ call.op = "AddExtent"
  /\ ~Degenerate(call.extent)
  /\ Len(extent_set_) = call.old_size
  /\ \E i, j \in DOMAIN extent_set_ :
       /\ i # j
       /\ BlocksOf(call.extent) \subseteq BlocksOf(extent_set_[i])
       /\ extent_set_[i] # call.extent
       /\ Apart(call.extent, extent_set_[j])

\* r is the intersection of Q with the entry e: it holds their common blocks.
IntersectionOf(r, e, Q) ==
  /\ r.num_blocks > 0
  /\ BlocksOf(r) = BlocksOf(e) \cap BlocksOf(Q)

\* What GetIntersectingExtents(Q) is to return on the entries of set.
IntersectingExtentsOf(out, set, Q) ==
  /\ \A i, j \in DOMAIN out : i < j => out[i].start_block < out[j].start_block
  /\ \A i \in DOMAIN out :
       \E e \in Entries(set) : IntersectionOf(out[i], e, Q)
  /\ Covered(out) = BlocksOf(Q) \cap Covered(set)

\* C16: GetIntersectingExtents(Q) returns extents in ascending start order,
\* each with num_blocks > 0 and each the intersection of Q with one entry;
\* the blocks they cover are exactly the blocks of Q that the set covers.
C16_Intersecting ==
  call.op = "GetIntersectingExtents" =>
    /\ call.status = "returned"
    /\ IntersectingExtentsOf(call.ret_extents, extent_set_, call.extent)

\* C16 for the queries that are not holes of one or more blocks.
IntersectingOfRealExtent ==
  (call.op = "GetIntersectingExtents" /\
   (call.extent.start_block # kSparseHole \/ call.extent.num_blocks = 0)) =>
    /\ call.status = "returned"
    /\ IntersectingExtentsOf(call.ret_extents, extent_set_, call.extent)

\* C17: OverlapsWithExtent(Q) returns true exactly when some entry shares a
\* block with Q, that is when ContainsBlock(x) holds for some block x of
\* [Q.start_block, Q.start_block + Q.num_blocks).
C17_Overlaps ==
  call.op = "OverlapsWithExtent" =>
    /\ call.status = "returned"
    /\ call.ret_bool <=>
         \E e \in Entries(extent_set_) : Share(e, call.extent)
    /\ call.ret_bool <=>
         \E x \in BlocksOf(call.extent) : x \in Covered(extent_set_)

\* C17 for the queries that are neither holes nor empty.
OverlapsOfRealExtent ==
  (call.op = "OverlapsWithExtent" /\ ~Degenerate(call.extent)) =>
    /\ call.status = "returned"
    /\ call.ret_bool <=>
         \E e \in Entries(extent_set_) : Share(e, call.extent)

\* An empty query is said to overlap when it starts on a covered block.
OverlapsOfEmptyExtent ==
  (call.op = "OverlapsWithExtent" /\ call.extent.num_blocks = 0 /\
   call.extent.start_block # kSparseHole) =>
    /\ call.status = "returned"
    /\ call.ret_bool <=> call.extent.start_block \in Covered(extent_set_)

\* C18: ExtentsOverlap(a, b) returns false whenever a or b starts at the
\* sparse-hole sentinel, whatever their num_blocks, also when both are holes.
C18_HoleNeverOverlaps ==
  (call.op = "ExtentsOverlap" /\
   (call.extent.start_block = kSparseHole \/
    call.other.start_block = kSparseHole)) =>
    call.ret_bool = FALSE

\* C18 where exactly one of the two is a hole.
OneHoleNeverOverlaps ==
  (call.op = "ExtentsOverlap" /\
   (call.extent.start_block = kSparseHole) #
     (call.other.start_block = kSparseHole)) =>
    call.ret_bool = FALSE

\* The decision procedure of ExtentsOverlap as the claims describe it, with
\* its end-boundary test strict (>) or not (>=).
OverlapProcedure(a, b, strict) ==
  IF a.start_block = b.start_block THEN a.num_blocks # 0
  ELSE IF a.start_block = kSparseHole \/ b.start_block = kSparseHole THEN FALSE
  ELSE IF a.start_block < b.start_block
    THEN IF strict THEN (a.start_block + a.num_blocks) % Modulus > b.start_block
                   ELSE (a.start_block + a.num_blocks) % Modulus >= b.start_block
    ELSE IF strict THEN (b.start_block + b.num_blocks) % Modulus > a.start_block
                   ELSE (b.start_block + b.num_blocks) % Modulus >= a.start_block

\* C19: ExtentsOverlapOrTouch(a, b) returns what the decision procedure of
\* ExtentsOverlap returns with its strict end-boundary test replaced by >=;
\* the equal-start case and the sentinel case are decided as ExtentsOverlap
\* decides them.
C19_TouchIsOverlapWithGeq ==
  call.op = "ExtentsOverlapOrTouch" =>
    call.ret_bool = OverlapProcedure(call.extent, call.other, FALSE)

\* ExtentsOverlap is the procedure with the strict test.
OverlapIsStrictProcedure ==
  call.op = "ExtentsOverlap" =>
    call.ret_bool = OverlapProcedure(call.extent, call.other, TRUE)

\* C19 away from the equal-start case with an empty first extent.
TouchIsOverlapWithGeqElsewhere ==
  (call.op = "ExtentsOverlapOrTouch" /\
   (call.extent.start_block # call.other.start_block \/
    call.extent.num_blocks # 0)) =>
    call.ret_bool = OverlapProcedure(call.extent, call.other, FALSE)

\* C20: for a query Q that is neither a hole nor empty, GetCandidateRange(Q)
\* returns a bracket [lower, upper) of the sorted entries, lower not after
\* upper, that holds every entry that overlaps or touches Q: no entry
\* outside the bracket overlaps or touches Q.
C20_CandidateRange ==
  (call.op = "GetCandidateRange" /\ ~Degenerate(call.extent)) =>
    /\ call.status = "returned"
    /\ SetBegin <= call.ret_range.begin
    /\ call.ret_range.begin <= call.ret_range.end
    /\ call.ret_range.end <= SetEnd(extent_set_)
    /\ \A i \in DOMAIN extent_set_ :
         (Share(extent_set_[i], call.extent) \/
          Touch(extent_set_[i], call.extent)) =>
           (call.ret_range.begin <= i /\ i < call.ret_range.end)

\* The bracket starts after the first entry, at an entry that ends where the
\* query starts, and ends before the last entry, behind an entry of several
\* blocks that starts where the query ends.
C20_Witness ==
  /\ call.op = "GetCandidateRange"
  /\ ~Degenerate(call.extent)
  /\ SetBegin < call.ret_range.begin
  /\ call.ret_range.end < SetEnd(extent_set_)
  /\ call.ret_range.begin < call.ret_range.end
  /\ EndOf(extent_set_[call.ret_range.begin]) = call.extent.start_block
  /\ extent_set_[call.ret_range.end - 1].start_block = EndOf(call.extent)
  /\ extent_set_[call.ret_range.end - 1].num_blocks >= 2

====
